---------------------------- MODULE Spec2Model ----------------------------
(***************************************************************************)
(* Batch orchestration engine of server.js: per-session progress state,   *)
(* chunked dispatch under a p-limit worker pool (processImagesParallel,   *)
(* processSingleImage) and the retry wrapper of the remote call           *)
(* (withRetry, isRetryableError).                                          *)
(*                                                                         *)
(* Node runs one handler or one promise continuation at a time.  An       *)
(* action below is one such run-to-completion segment: the code between   *)
(* two awaits.  Continuations that follow one another through the         *)
(* microtask queue (p-limit starting the next queued task, Promise.all    *)
(* resolving) are separate actions, and MicrotaskPending keeps every      *)
(* macrotask (an HTTP handler, the completion of an I/O request, a timer) *)
(* disabled until they have run, as the event loop does.                  *)
(***************************************************************************)
EXTENDS Naturals, Sequences, FiniteSets, TLC

\* ------------------------------------------------------------------ bounds
\* Largest batch a client submits.
MaxFiles == 4
\* Largest maxRetries handed to withRetry.
MaxRetriesArg == 4
\* The width of the p-limit pool and the chunk length.  The source sets them
\* to 3 and 10 (server.js lines 35 and 36); processImagesParallel is
\* parametric in both, and the model runs it scaled down, keeping what the
\* code's behaviour depends on: a chunk longer than the pool is wide, so that
\* tasks queue, and a batch longer than a chunk, so that chunks follow one
\* another.
CONCURRENCY_LIMIT == 2
CHUNK_SIZE == 3
\* The fitter is run on every image of 1..MaxDim by 1..MaxDim pixels, with
\* every maxWidth and maxHeight of 0..MaxDim (0 for an argument left out) and
\* every maxPixels of 0..MaxBudget, and on the sizes of FitExamples.
MaxDim == 4
MaxBudget == 12
\* Most files in a batch of the session lifecycle's specification.
MaxSessionFiles == 1
\* The clock stops at MaxTime.  Time is counted in ticks, and the three
\* delays of the source, 5000 ms before a download's cleanup, 5 * 60 * 1000 ms
\* between sweeps and SESSION_TIMEOUT = 60 * 60 * 1000 ms (server.js lines
\* 329, 88 and 59), are scaled down to 1, 2 and 3 ticks, keeping their order
\* and a timeout that is not a multiple of the sweep period, so that a
\* session outlives its timeout until the next sweep.
MaxTime == 5
GRACE_DELAY == 1
SWEEP_INTERVAL == 2
SESSION_TIMEOUT == 3

\* ------------------------------------------------------- program constants
MAX_RETRIES == 3
RETRY_BASE_DELAY == 2000

\* originalName of the uploaded files, in upload order: a batch is a prefix
\* of either list.  In the second, two files carry the same name.
DistinctNames == <<"a", "b", "c", "d", "e", "f", "g", "h">>
RepeatedNames == <<"a", "a", "b", "c", "d", "e", "f", "g">>
\* The id generateSessionId returns for the batch.
BatchId == "s1"
\* An id no batch was ever given, and a request that carries no id.
UnknownId == "x"
NoId == ""
SessionIds == {BatchId, UnknownId}

BACKGROUND_ERROR == "Failed to load background image"
NO_KEY_ERROR == "JASPER_API_KEY not configured in .env file"
\* error.message of a failed fit, remote call and output write.
FIT_ERROR == "fit"
REMOTE_ERROR == "remote"
WRITE_ERROR == "write"

VARIABLES
    apiKey,          \* process.env.JASPER_API_KEY is set
    bgDims,          \* the submission carried backgroundDimensions
    files,           \* req.body.files: the originalName of each task, in order
    dpc,             \* processImagesParallel: "idle" | "loadbg" | "awaitAll" | "done"
    chunkStart,      \* processImagesParallel's loop variable (0-based)
    tpc,             \* per task: "none" | "queued" | "fit" | "remote" | "done"
    state,           \* the state object processImagesParallel captured
    sessionStates,   \* per session id: "none" | "batch" (the captured object) | "default"
    activeSessions,  \* ids in the activeSessions map
    tempDir,         \* per session id: its directory [exists, names of the files in it]
    uploads,         \* source files still on disk: task indices, BgFile the background
    started,         \* history: tasks ever pushed on currentImages
    sent,            \* history: tasks ever handed to the remote service
    doneOrder,       \* history: the task index behind each entry of state.results
    rpc,             \* withRetry: "idle" | "calling" | "sleeping" | "returned" | "thrown"
    maxRetries,      \* withRetry's parameter
    attempt,         \* withRetry's loop variable
    calls,           \* history: fn() invocations, one entry per outcome
    sleeps,          \* history: the delays slept, in order
    thrown,          \* the error withRetry threw, or NoError
    other,           \* a second withRetry call in flight: [rpc, attempt, calls, sleeps, thrown]
    now,             \* Date.now(), in ticks
    nextSweep,       \* when the setInterval callback is due next
    createdAt,       \* per session id: createdAt of its activeSessions entry
    timers,          \* pending setTimeout(cleanupSession) calls: [id, due]
    zips,            \* ids with an archive being streamed
    reclaimedBy,     \* history, per id: what first cleaned the session up
    reply,           \* the response of the request handled last, NoReply after any other step
    fitIn,           \* downscaleImageToLimit: the image's size and the arguments
    fitOut,          \* downscaleImageToLimit: what it returned, or NoFit
    bg,              \* loadBackgroundBuffer: [pc, width, height, safeMaxPixels, finalWidth, finalHeight]
    second           \* a second processImagesParallel call: its tasks [queued, fit, remote]

dvars == <<apiKey, bgDims, files, dpc, chunkStart, tpc, state, sessionStates,
           activeSessions, tempDir, uploads, started, sent, doneOrder>>
rvars == <<rpc, maxRetries, attempt, calls, sleeps, thrown>>
\* What the dispatcher's steps leave alone, and what one retry call's do.
svars == <<now, nextSweep, createdAt, timers, zips, reclaimedBy, reply>>
fvars == <<fitIn, fitOut, bg>>
tvars == <<second>>
notdvars == <<rvars, other, svars, fvars, tvars>>
notrvars == <<dvars, other, svars, fvars, tvars>>
notsvars == <<rvars, other, fvars, tvars>>
notfvars == <<dvars, rvars, other, svars, tvars>>
nottvars == <<dvars, rvars, other, svars, fvars>>
vars == <<apiKey, bgDims, files, dpc, chunkStart, tpc, state, sessionStates,
          activeSessions, tempDir, uploads, started, sent, doneOrder,
          rpc, maxRetries, attempt, calls, sleeps, thrown, other,
          now, nextSweep, createdAt, timers, zips, reclaimedBy, reply,
          fitIn, fitOut, bg, second>>

\* A session directory that does not exist, and the background among uploads.
NoDir == [exists |-> FALSE, names |-> {}]
BgFile == 0
\* What fn() settles with: the response, or an error that carries a
\* response with a status, or none (a network error or a timeout).
NoError == [kind |-> "none", hasResponse |-> FALSE, status |-> 0]
Response == [kind |-> "ok", hasResponse |-> TRUE, status |-> 200]
Statuses == {304, 400, 401, 428, 429, 430, 499, 500, 503}
Errors ==
    {[kind |-> "error", hasResponse |-> FALSE, status |-> 0]} \cup
    {[kind |-> "error", hasResponse |-> TRUE, status |-> s] : s \in Statuses}
\* A withRetry call that has not been made.
NoCall ==
    [rpc |-> "idle", attempt |-> 0, calls |-> <<>>, sleeps |-> <<>>,
     thrown |-> NoError]

\* No image being fitted, and nothing returned.
NoFitIn ==
    [width |-> 0, height |-> 0, maxWidth |-> 0, maxHeight |-> 0, maxPixels |-> 0]
NoFit == [resized |-> FALSE, width |-> 0, height |-> 0]

\* loadBackgroundBuffer has not been called.
NoBackground ==
    [pc |-> "idle", width |-> 0, height |-> 0, safeMaxPixels |-> 0,
     finalWidth |-> 0, finalHeight |-> 0]

\* No second batch: none of its tasks is queued or executing.
NoSecond == [queued |-> 0, fit |-> 0, remote |-> 0]

\* ----------------------------------------------------------- session state

\* The body of a POST /api/process request: the file list when it has one,
\* and whether it has backgroundFile and backgroundDimensions.
NoInput == [hasFiles |-> FALSE, fs |-> <<>>, hasBg |-> FALSE, hasDims |-> FALSE]
\* No response: the last step was not a request.
NoReply ==
    [op |-> "none", id |-> NoId, code |-> 0, req |-> NoInput,
     view |-> [isProcessing |-> FALSE, totalImages |-> 0, processedImages |-> 0,
               currentImages |-> <<>>, results |-> <<>>]]

\* The record getSessionState creates for an id it does not know.
DefaultState ==
    [isProcessing |-> FALSE, totalImages |-> 0, processedImages |-> 0,
     currentImages |-> <<>>, results |-> <<>>]

\* What getSessionState(id) returns: the stored object, created when absent.
GetSessionState(id) ==
    IF sessionStates[id] = "batch" THEN state ELSE DefaultState

\* The map after getSessionState(id).
AfterGet(id) ==
    IF sessionStates[id] = "none"
    THEN [sessionStates EXCEPT ![id] = "default"]
    ELSE sessionStates

\* Mutant: no marker is pushed.
PushCurrentNot(st, name) == st

\* state.currentImages.push(fileName)
PushCurrent(st, name) ==
    [st EXCEPT !.currentImages = Append(@, name)]

\* indexOf: the first position holding name, 0 when there is none.
IndexOf(seq, name) ==
    IF \E k \in 1..Len(seq) : seq[k] = name
    THEN CHOOSE k \in 1..Len(seq) :
            seq[k] = name /\ \A j \in 1..(k - 1) : seq[j] # name
    ELSE 0

\* Mutant: the marker is left in place.
RemoveCurrentNot(st, name) == st

\* idx = indexOf(fileName); if (idx > -1) splice(idx, 1)
RemoveCurrent(st, name) ==
    LET idx == IndexOf(st.currentImages, name)
    IN  IF idx = 0 THEN st
        ELSE [st EXCEPT !.currentImages =
                 SubSeq(@, 1, idx - 1) \o SubSeq(@, idx + 1, Len(@))]

\* Mutant: the outcome is put in front of the list.
PushResultFirst(st, outcome) ==
    [st EXCEPT !.results = <<outcome>> \o @]

\* state.results.push({...})
PushResult(st, outcome) ==
    [st EXCEPT !.results = Append(@, outcome)]

\* state.processedImages++
IncProcessed(st) ==
    [st EXCEPT !.processedImages = @ + 1]

Success(name) ==
    [file |-> name, success |-> TRUE, error |-> "",
     savedTo |-> "composited-" \o name]

Failure(name, cause) ==
    [file |-> name, success |-> FALSE, error |-> cause, savedTo |-> ""]

\* ------------------------------------------------------------- dispatcher

N == Len(files)

\* 1-based indices of files.slice(chunkStart, chunkEnd).
ChunkEnd(cs) == IF cs + CHUNK_SIZE < N THEN cs + CHUNK_SIZE ELSE N
Chunk(cs) == (cs + 1)..ChunkEnd(cs)

\* Tasks whose function p-limit is running.
Active == {i \in 1..N : tpc[i] \in {"fit", "remote"}}

\* p-limit's queue, first in first out: the head is the lowest queued task.
QueueHead(i) ==
    /\ tpc[i] = "queued"
    /\ \A j \in Chunk(chunkStart) : j < i => tpc[j] # "queued"

\* Mutant: the queue is drained without the concurrency test.
CanStartUnlimited(i) ==
    /\ dpc = "awaitAll"
    /\ i \in Chunk(chunkStart)
    /\ QueueHead(i)

\* p-limit runs the next queued function when fewer than the limit are active.
CanStart(i) ==
    /\ dpc = "awaitAll"
    /\ i \in Chunk(chunkStart)
    /\ QueueHead(i)
    /\ Cardinality(Active) < CONCURRENCY_LIMIT

\* Mutant: the dispatcher goes on when the first promise settles.
ChunkSettledAny ==
    /\ dpc = "awaitAll"
    /\ \E i \in Chunk(chunkStart) : tpc[i] = "done"

\* Promise.all(promises) resolves.
ChunkSettled ==
    /\ dpc = "awaitAll"
    /\ \A i \in Chunk(chunkStart) : tpc[i] = "done"

MicrotaskPending ==
    \/ dpc = "loadbg" /\ ~bgDims
    \/ ChunkSettled
    \/ \E i \in 1..N : CanStart(i)

FileLists ==
    {SubSeq(l, 1, n) : l \in {DistinctNames, RepeatedNames}, n \in 1..MaxFiles}

\* Mutant: the counter is incremented on the success path only.
RecordOutcomeCountSuccess(st, name, outcome) ==
    IF outcome.success
    THEN IncProcessed(RemoveCurrent(PushResult(st, outcome), name))
    ELSE RemoveCurrent(PushResult(st, outcome), name)

\* processSingleImage's catch/try tail and its finally block: the outcome is
\* pushed, the task's marker spliced out and the counter incremented, in one
\* synchronous run.
RecordOutcome(st, name, outcome) ==
    IncProcessed(RemoveCurrent(PushResult(st, outcome), name))

\* Mutant: the chunk's failures are pushed without counting them.
FailChunkUncounted(st, cs) ==
    LET len == ChunkEnd(cs) - cs
    IN  [st EXCEPT
            !.results = @ \o [k \in 1..len |->
                                Failure(files[cs + k], BACKGROUND_ERROR)]]

\* Mutant: each file's failure names the file.
FailChunkOwnCause(st, cs) ==
    LET len == ChunkEnd(cs) - cs
    IN  [st EXCEPT
            !.results = @ \o [k \in 1..len |->
                                Failure(files[cs + k],
                                        BACKGROUND_ERROR \o ": " \o files[cs + k])],
            !.processedImages = @ + len]

\* The loop of the catch block around loadBackgroundBuffer: every file of the
\* chunk gets the same failure and counts as processed.
FailChunk(st, cs) ==
    LET len == ChunkEnd(cs) - cs
    IN  [st EXCEPT
            !.results = @ \o [k \in 1..len |->
                                Failure(files[cs + k], BACKGROUND_ERROR)],
            !.processedImages = @ + len]

\* Mutant: the flag is left set.
FinishBatchStillProcessing(st) ==
    [st EXCEPT !.currentImages = <<>>]

\* state.isProcessing = false; state.currentImages = []
FinishBatch(st) ==
    [st EXCEPT !.isProcessing = FALSE, !.currentImages = <<>>]

\* Mutant: the uploaded sources are unlinked inside the loop, after each chunk.
NextChunkEagerCleanup(st) ==
    /\ chunkStart' = chunkStart + CHUNK_SIZE
    /\ uploads' = {}
    /\ IF chunkStart + CHUNK_SIZE < N
       THEN /\ dpc' = "loadbg"
            /\ state' = st
       ELSE /\ dpc' = "done"
            /\ state' = FinishBatch(st)

\* The for loop's step after a chunk: the next chunk's background load is
\* awaited, or the loop ends, the batch is marked finished and the uploaded
\* sources (every task's file and the background) are unlinked.
NextChunk(st) ==
    /\ chunkStart' = chunkStart + CHUNK_SIZE
    /\ IF chunkStart + CHUNK_SIZE < N
       THEN /\ dpc' = "loadbg"
            /\ state' = st
            /\ uploads' = uploads
       ELSE /\ dpc' = "done"
            /\ state' = FinishBatch(st)
            /\ uploads' = {}

\* Mutant: the state is left as getSessionState created it, not processing.
InitialStateIdle(n) ==
    [isProcessing |-> FALSE, totalImages |-> n, processedImages |-> 0,
     currentImages |-> <<>>, results |-> <<>>]

\* The state POST /api/process writes before it starts the batch.
InitialState(n) ==
    [isProcessing |-> TRUE, totalImages |-> n, processedImages |-> 0,
     currentImages |-> <<>>, results |-> <<>>]

\* POST /api/process with a non-empty file list and a background: the session
\* directory, the activeSessions entry and the state are created, and
\* processImagesParallel runs up to its first await.
Submit(fs, dims) ==
    /\ dpc = "idle"
    /\ files' = fs
    /\ bgDims' = dims
    /\ tempDir' = [tempDir EXCEPT ![BatchId] = [exists |-> TRUE, names |-> {}]]
    /\ activeSessions' = activeSessions \cup {BatchId}
    /\ sessionStates' = [sessionStates EXCEPT ![BatchId] = "batch"]
    /\ state' = InitialState(Len(fs))
    /\ dpc' = "loadbg"
    /\ chunkStart' = 0
    /\ tpc' = [i \in 1..MaxFiles |-> IF i <= Len(fs) THEN "queued" ELSE "none"]
    /\ uploads' = (1..Len(fs)) \cup {BgFile}
    /\ UNCHANGED <<apiKey, started, sent, doneOrder>>

\* loadBackgroundBuffer resolves: the chunk's tasks are handed to p-limit.
\* Without backgroundDimensions it throws on bgDimensions.width.
LoadBackgroundOk ==
    /\ dpc = "loadbg"
    /\ bgDims
    /\ dpc' = "awaitAll"
    /\ UNCHANGED <<apiKey, bgDims, files, chunkStart, tpc, state, sessionStates,
                   activeSessions, tempDir, uploads, started, sent, doneOrder>>

\* loadBackgroundBuffer throws: the chunk is failed as a whole and the loop
\* continues, all in one synchronous run.
LoadBackgroundFail ==
    /\ dpc = "loadbg"
    /\ tpc' = [i \in 1..MaxFiles |->
                 IF i \in Chunk(chunkStart) THEN "done" ELSE tpc[i]]
    /\ doneOrder' = doneOrder \o
                      [k \in 1..(ChunkEnd(chunkStart) - chunkStart) |->
                          chunkStart + k]
    /\ NextChunk(FailChunk(state, chunkStart))
    /\ UNCHANGED <<apiKey, bgDims, files, sessionStates, activeSessions, tempDir,
                   started, sent>>

\* Mutant: no catch block: a failed task rejects its promise, Promise.all
\* rejects and processImagesParallel ends there.
EndTaskRejecting(st, i, outcome) ==
    /\ state' = RecordOutcome(st, files[i], outcome)
    /\ tpc' = [tpc EXCEPT ![i] = "done"]
    /\ doneOrder' = Append(doneOrder, i)
    /\ dpc' = IF outcome.success THEN dpc ELSE "aborted"

\* The end of processSingleImage: the outcome is recorded in the try or in
\* the catch block, the promise resolves either way and p-limit frees the
\* slot; the dispatcher's await is not affected.
EndTask(st, i, outcome) ==
    /\ state' = RecordOutcome(st, files[i], outcome)
    /\ tpc' = [tpc EXCEPT ![i] = "done"]
    /\ doneOrder' = Append(doneOrder, i)
    /\ dpc' = dpc

\* p-limit runs processSingleImage for the head of its queue: the marker is
\* pushed and the fit of the foreground is awaited.  Without an API key
\* processWithJasperOptimized returns a failure at once and the task ends in
\* the same run.
StartTask(i) ==
    /\ CanStart(i)
    /\ started' = started \cup {i}
    /\ IF apiKey
       THEN /\ state' = PushCurrent(state, files[i])
            /\ tpc' = [tpc EXCEPT ![i] = "fit"]
            /\ doneOrder' = doneOrder
            /\ dpc' = dpc
       ELSE EndTask(PushCurrent(state, files[i]), i,
                    Failure(files[i], NO_KEY_ERROR))
    /\ UNCHANGED <<apiKey, bgDims, files, chunkStart, sessionStates,
                   activeSessions, tempDir, uploads, sent>>

\* downscaleImageToLimit resolves: the form is built and withRetry issues the
\* remote call.
FitOk(i) ==
    /\ ~MicrotaskPending
    /\ tpc[i] = "fit"
    /\ tpc' = [tpc EXCEPT ![i] = "remote"]
    /\ sent' = sent \cup {i}
    /\ UNCHANGED <<apiKey, bgDims, files, dpc, chunkStart, state, sessionStates,
                   activeSessions, tempDir, uploads, started, doneOrder>>

\* downscaleImageToLimit throws: caught in processWithJasperOptimized, thrown
\* again and caught in processSingleImage.
FitFail(i) ==
    /\ ~MicrotaskPending
    /\ tpc[i] = "fit"
    /\ EndTask(state, i, Failure(files[i], FIT_ERROR))
    /\ UNCHANGED <<apiKey, bgDims, files, chunkStart, sessionStates,
                   activeSessions, tempDir, uploads, started, sent>>

\* withRetry returns the response.  fs.writeFileSync stores it in the session
\* directory, and throws when the directory is gone or the write fails.
RemoteOk(i, writeOk) ==
    /\ ~MicrotaskPending
    /\ tpc[i] = "remote"
    /\ IF tempDir[BatchId].exists /\ writeOk
       THEN /\ tempDir' = [tempDir EXCEPT
                              ![BatchId].names = @ \cup {"composited-" \o files[i]}]
            /\ EndTask(state, i, Success(files[i]))
       ELSE /\ tempDir' = tempDir
            /\ EndTask(state, i, Failure(files[i], WRITE_ERROR))
    /\ UNCHANGED <<apiKey, bgDims, files, chunkStart, sessionStates,
                   activeSessions, uploads, started, sent>>

\* withRetry throws: the remote call failed for good.
RemoteFail(i) ==
    /\ ~MicrotaskPending
    /\ tpc[i] = "remote"
    /\ EndTask(state, i, Failure(files[i], REMOTE_ERROR))
    /\ UNCHANGED <<apiKey, bgDims, files, chunkStart, sessionStates,
                   activeSessions, tempDir, uploads, started, sent>>

\* await Promise.all(promises) continues.
ChunkComplete ==
    /\ ChunkSettled
    /\ NextChunk(state)
    /\ UNCHANGED <<apiKey, bgDims, files, tpc, sessionStates, activeSessions, tempDir,
                   started, sent, doneOrder>>

\* GET /api/status?sessionId=id
GetStatus(id) ==
    /\ ~MicrotaskPending
    /\ sessionStates' = AfterGet(id)
    /\ UNCHANGED <<apiKey, bgDims, files, dpc, chunkStart, tpc, state, activeSessions,
                   tempDir, uploads, started, sent, doneOrder>>

\* Mutant: cleanupSession without cleanupSessionState.
CleanupSessionKeepState(id) ==
    /\ ~MicrotaskPending
    /\ tempDir' = [tempDir EXCEPT ![id] = NoDir]
    /\ activeSessions' = activeSessions \ {id}
    /\ sessionStates' = sessionStates
    /\ UNCHANGED <<apiKey, bgDims, files, dpc, chunkStart, tpc, state, uploads,
                   started, sent, doneOrder>>

\* cleanupSession(id), as POST /api/clear, a download's timer and the sweep
\* call it.
CleanupSession(id) ==
    /\ ~MicrotaskPending
    /\ tempDir' = [tempDir EXCEPT ![id] = NoDir]
    /\ activeSessions' = activeSessions \ {id}
    /\ sessionStates' = [sessionStates EXCEPT ![id] = "none"]
    /\ UNCHANGED <<apiKey, bgDims, files, dpc, chunkStart, tpc, state, uploads,
                   started, sent, doneOrder>>

DispatcherInit ==
    /\ apiKey \in BOOLEAN
    /\ bgDims = TRUE
    /\ files = <<>>
    /\ dpc = "idle"
    /\ chunkStart = 0
    /\ tpc = [i \in 1..MaxFiles |-> "none"]
    /\ state = DefaultState
    /\ sessionStates = [id \in SessionIds |-> "none"]
    /\ activeSessions = {}
    /\ tempDir = [id \in SessionIds |-> NoDir]
    /\ uploads = {}
    /\ started = {}
    /\ sent = {}
    /\ doneOrder = <<>>
    /\ second = NoSecond

RetryIdle ==
    /\ rpc = "idle"
    /\ maxRetries = MAX_RETRIES
    /\ attempt = 0
    /\ calls = <<>>
    /\ sleeps = <<>>
    /\ thrown = NoError
    /\ other = NoCall

\* The server has just started: setInterval is armed, nothing else is pending.
SessionIdle ==
    /\ now = 0
    /\ nextSweep = SWEEP_INTERVAL
    /\ createdAt = [id \in SessionIds |-> 0]
    /\ timers = {}
    /\ zips = {}
    /\ reclaimedBy = [id \in SessionIds |-> "none"]
    /\ reply = NoReply

\* No image is being fitted.
FitIdle ==
    /\ fitIn = NoFitIn
    /\ fitOut = NoFit
    /\ bg = NoBackground

Init == DispatcherInit /\ RetryIdle /\ SessionIdle /\ FitIdle

Next ==
    \/ \E fs \in FileLists, dims \in BOOLEAN : Submit(fs, dims) /\ UNCHANGED notdvars
    \/ LoadBackgroundOk /\ UNCHANGED notdvars
    \/ LoadBackgroundFail /\ UNCHANGED notdvars
    \/ \E i \in 1..MaxFiles : StartTask(i) /\ UNCHANGED notdvars
    \/ \E i \in 1..MaxFiles : FitOk(i) /\ UNCHANGED notdvars
    \/ \E i \in 1..MaxFiles : FitFail(i) /\ UNCHANGED notdvars
    \/ \E i \in 1..MaxFiles, w \in BOOLEAN : RemoteOk(i, w) /\ UNCHANGED notdvars
    \/ \E i \in 1..MaxFiles : RemoteFail(i) /\ UNCHANGED notdvars
    \/ ChunkComplete /\ UNCHANGED notdvars
    \/ GetStatus(BatchId) /\ UNCHANGED notdvars
    \/ CleanupSession(BatchId) /\ UNCHANGED notdvars

Spec == Init /\ [][Next]_vars

\* -------------------------------------------------------- session lifecycle

SessionFileLists == {SubSeq(DistinctNames, 1, n) : n \in 1..MaxSessionFiles}

\* The request bodies of POST /api/process: complete ones, ones that lack
\* backgroundDimensions only, and one each without files, with an empty
\* file list and without backgroundFile.
SubmissionInputs ==
    {[hasFiles |-> TRUE, fs |-> fs, hasBg |-> TRUE, hasDims |-> d] :
        fs \in SessionFileLists, d \in BOOLEAN}
    \cup {[hasFiles |-> FALSE, fs |-> <<>>, hasBg |-> TRUE, hasDims |-> TRUE],
          [hasFiles |-> TRUE, fs |-> <<>>, hasBg |-> TRUE, hasDims |-> TRUE],
          [hasFiles |-> TRUE, fs |-> SubSeq(DistinctNames, 1, 1),
           hasBg |-> FALSE, hasDims |-> TRUE]}

\* The two tests POST /api/process makes before it creates the session.
Rejects(input) ==
    \/ ~input.hasFiles \/ Len(input.fs) = 0
    \/ ~input.hasBg

\* What GET /api/status answers when the query has no sessionId.
EmptyView ==
    [isProcessing |-> FALSE, totalImages |-> 0, processedImages |-> 0,
     currentImages |-> <<>>, results |-> <<>>]

\* Mutant: a session is given one more sweep period.
IsExpiredLate(t, created) == t - created > SESSION_TIMEOUT + SWEEP_INTERVAL

\* now - sessionData.createdAt > SESSION_TIMEOUT
IsExpired(t, created) == t - created > SESSION_TIMEOUT

\* The history of cleanups: the first cause is kept for a session that was there.
Mark(ids, cause) ==
    [id \in SessionIds |->
        IF /\ id \in ids
           /\ reclaimedBy[id] = "none"
           /\ id \in activeSessions \/ tempDir[id].exists
        THEN cause
        ELSE reclaimedBy[id]]

\* A step that is not a request: no response, no timer set, no time passing.
Background ==
    /\ reply' = NoReply
    /\ UNCHANGED <<now, nextSweep, createdAt, timers, zips, reclaimedBy>>
    /\ UNCHANGED notsvars

\* POST /api/process
PostProcess(input) ==
    /\ ~MicrotaskPending
    /\ IF Rejects(input)
       THEN /\ reply' = [NoReply EXCEPT !.op = "process", !.code = 400,
                                        !.req = input]
            /\ UNCHANGED <<dvars, createdAt>>
       ELSE /\ Submit(input.fs, input.hasDims)
            /\ createdAt' = [createdAt EXCEPT ![BatchId] = now]
            /\ reply' = [NoReply EXCEPT !.op = "process", !.code = 200,
                                        !.id = BatchId, !.req = input]
    /\ UNCHANGED <<now, nextSweep, timers, zips, reclaimedBy>>
    /\ UNCHANGED notsvars

\* GET /api/status, with ?sessionId=q or without (q = NoId)
StatusRequest(q) ==
    /\ IF q = NoId
       THEN /\ ~MicrotaskPending
            /\ reply' = [NoReply EXCEPT !.op = "status", !.code = 200,
                                        !.view = EmptyView]
            /\ UNCHANGED dvars
       ELSE /\ GetStatus(q)
            /\ reply' = [NoReply EXCEPT !.op = "status", !.code = 200,
                                        !.id = q, !.view = GetSessionState(q)]
    /\ UNCHANGED <<now, nextSweep, createdAt, timers, zips, reclaimedBy>>
    /\ UNCHANGED notsvars

\* POST /api/clear, with sessionId q in the body or without
ClearRequest(q) ==
    /\ IF q = NoId
       THEN /\ ~MicrotaskPending
            /\ UNCHANGED <<dvars, reclaimedBy>>
       ELSE /\ CleanupSession(q)
            /\ reclaimedBy' = Mark({q}, "clear")
    /\ reply' = [NoReply EXCEPT !.op = "clear", !.code = 200, !.id = q]
    /\ UNCHANGED <<now, nextSweep, createdAt, timers, zips>>
    /\ UNCHANGED notsvars

\* Mutant: the archive is started without looking at the directory.
DownloadUnchecked(id) ==
    /\ ~MicrotaskPending
    /\ reply' = [NoReply EXCEPT !.op = "download", !.code = 200, !.id = id]
    /\ zips' = zips \cup {id}
    /\ UNCHANGED <<dvars, now, nextSweep, createdAt, timers, reclaimedBy>>
    /\ UNCHANGED notsvars

\* GET /api/download/:sessionId, up to archive.finalize(): 404 when the
\* directory is missing or lists no file, else the archive starts streaming.
Download(id) ==
    /\ ~MicrotaskPending
    /\ IF ~tempDir[id].exists \/ tempDir[id].names = {}
       THEN /\ reply' = [NoReply EXCEPT !.op = "download", !.code = 404,
                                        !.id = id]
            /\ zips' = zips
       ELSE /\ reply' = [NoReply EXCEPT !.op = "download", !.code = 200,
                                        !.id = id]
            /\ zips' = zips \cup {id}
    /\ UNCHANGED <<dvars, now, nextSweep, createdAt, timers, reclaimedBy>>
    /\ UNCHANGED notsvars

\* Mutant: the cleanup is scheduled with no delay.
ArchiveEndNoDelay(id) ==
    /\ ~MicrotaskPending
    /\ id \in zips
    /\ now + GRACE_DELAY <= MaxTime
    /\ zips' = zips \ {id}
    /\ timers' = timers \cup {[id |-> id, due |-> now]}
    /\ reply' = NoReply
    /\ UNCHANGED <<dvars, now, nextSweep, createdAt, reclaimedBy>>
    /\ UNCHANGED notsvars

\* archive.on('end'): setTimeout(() => cleanupSession(sessionId), 5000)
ArchiveEnd(id) ==
    /\ ~MicrotaskPending
    /\ id \in zips
    /\ now + GRACE_DELAY <= MaxTime
    /\ zips' = zips \ {id}
    /\ timers' = timers \cup {[id |-> id, due |-> now + GRACE_DELAY]}
    /\ reply' = NoReply
    /\ UNCHANGED <<dvars, now, nextSweep, createdAt, reclaimedBy>>
    /\ UNCHANGED notsvars

\* archive.on('error'): no cleanup is scheduled.
ArchiveError(id) ==
    /\ ~MicrotaskPending
    /\ id \in zips
    /\ zips' = zips \ {id}
    /\ reply' = NoReply
    /\ UNCHANGED <<dvars, now, nextSweep, createdAt, timers, reclaimedBy>>
    /\ UNCHANGED notsvars

\* The callback of a download's setTimeout runs.
TimerFire(t) ==
    /\ t \in timers
    /\ now >= t.due
    /\ CleanupSession(t.id)
    /\ timers' = timers \ {t}
    /\ reclaimedBy' = Mark({t.id}, "timer")
    /\ reply' = NoReply
    /\ UNCHANGED <<now, nextSweep, createdAt, zips>>
    /\ UNCHANGED notsvars

\* cleanupSession on each id of a set, as the sweep's loop calls it.
CleanupSessions(ids) ==
    /\ tempDir' = [id \in SessionIds |->
                     IF id \in ids THEN NoDir ELSE tempDir[id]]
    /\ activeSessions' = activeSessions \ ids
    /\ sessionStates' = [id \in SessionIds |->
                           IF id \in ids THEN "none" ELSE sessionStates[id]]
    /\ UNCHANGED <<apiKey, bgDims, files, dpc, chunkStart, tpc, state, uploads,
                   started, sent, doneOrder>>

\* The setInterval callback: every activeSessions entry older than
\* SESSION_TIMEOUT is cleaned up.
Sweep ==
    /\ ~MicrotaskPending
    /\ now >= nextSweep
    /\ nextSweep' = nextSweep + SWEEP_INTERVAL
    /\ LET old == {id \in activeSessions : IsExpired(now, createdAt[id])}
       IN  /\ CleanupSessions(old)
           /\ reclaimedBy' = Mark(old, "sweep")
    /\ reply' = NoReply
    /\ UNCHANGED <<now, createdAt, timers, zips>>
    /\ UNCHANGED notsvars

\* Time passes, once every timer that is due has run.
Tick ==
    /\ ~MicrotaskPending
    /\ now < MaxTime
    /\ now < nextSweep
    /\ \A t \in timers : now < t.due
    /\ now' = now + 1
    /\ reply' = NoReply
    /\ UNCHANGED <<dvars, nextSweep, createdAt, timers, zips, reclaimedBy>>
    /\ UNCHANGED notsvars

SessionNext ==
    \/ \E input \in SubmissionInputs : PostProcess(input)
    \/ \E q \in SessionIds \cup {NoId} : StatusRequest(q)
    \/ \E q \in SessionIds \cup {NoId} : ClearRequest(q)
    \/ \E id \in SessionIds : Download(id)
    \/ \E id \in SessionIds : ArchiveEnd(id)
    \/ \E id \in SessionIds : ArchiveError(id)
    \/ \E t \in timers : TimerFire(t)
    \/ Sweep
    \/ Tick
    \/ LoadBackgroundOk /\ Background
    \/ LoadBackgroundFail /\ Background
    \/ \E i \in 1..MaxFiles : StartTask(i) /\ Background
    \/ \E i \in 1..MaxFiles : FitOk(i) /\ Background
    \/ \E i \in 1..MaxFiles : FitFail(i) /\ Background
    \/ \E i \in 1..MaxFiles, w \in BOOLEAN : RemoteOk(i, w) /\ Background
    \/ \E i \in 1..MaxFiles : RemoteFail(i) /\ Background
    \/ ChunkComplete /\ Background

SpecSession == Init /\ [][SessionNext]_vars

\* The continuations the event loop runs before anything else.
Microtasks ==
    \/ \E i \in 1..MaxFiles : StartTask(i) /\ Background
    \/ ChunkComplete /\ Background
    \/ ~bgDims /\ LoadBackgroundFail /\ Background

\* The event loop runs pending continuations and due timers, and time passes.
SpecSessionFair ==
    /\ SpecSession
    /\ WF_vars(Microtasks)
    /\ WF_vars(\E t \in timers : TimerFire(t))
    /\ WF_vars(Sweep)
    /\ WF_vars(Tick)

\* ------------------------------------------------------ dispatcher claims

\* What a status query for id answers with.
View(id) == GetSessionState(id)

\* The session was not cleaned up since its batch was submitted.
Live == sessionStates[BatchId] = "batch"

Range(seq) == {seq[k] : k \in 1..Len(seq)}
ChunkOf(i) == (i - 1) \div CHUNK_SIZE
ChunkStartOf(i) == ChunkOf(i) * CHUNK_SIZE
\* Positions of task i in the results list.
ResultsOf(i) == {k \in 1..Len(doneOrder) : doneOrder[k] = i}
HasResult(i) == ResultsOf(i) # {}
ResultOf(i) == state.results[CHOOSE k \in ResultsOf(i) : TRUE]
Occurrences(seq, x) == Cardinality({k \in 1..Len(seq) : seq[k] = x})

\* C1: once the dispatcher has marked a live session as no longer
\* processing, processedImages = totalImages = n and results has n entries.
C1_CompletionCounts ==
    (dpc = "done" /\ Live) =>
        /\ N >= 1
        /\ ~View(BatchId).isProcessing
        /\ View(BatchId).totalImages = N
        /\ View(BatchId).processedImages = N
        /\ Len(View(BatchId).results) = N

\* A finished batch with a success, a failed task and a failed chunk.
C1_Witness ==
    /\ dpc = "done" /\ Live
    /\ N = CHUNK_SIZE + 1
    /\ \E k \in 1..N : state.results[k].success
    /\ \E k \in 1..N : state.results[k].error = REMOTE_ERROR
    /\ \E k \in 1..N : state.results[k].error = BACKGROUND_ERROR

\* C2: in every state a status query can run in, the view of every session
\* has processedImages equal to the number of its results.
C2_ProcessedMatchesResults ==
    ~MicrotaskPending =>
        \A id \in SessionIds :
            View(id).processedImages = Len(View(id).results)

\* Two tasks that ran together have ended, the second before the first, one
\* by a success and one by a failure, while a third runs.
C2_Witness ==
    /\ ~MicrotaskPending /\ Live
    /\ Cardinality(Active) >= 1
    /\ View(BatchId).processedImages = 2
    /\ doneOrder = <<2, 1>>
    /\ state.results[1].success
    /\ ~state.results[2].success

\* C3: the in-flight list never has more than CONCURRENCY_LIMIT entries.
C3_InFlightBounded ==
    /\ Len(state.currentImages) <= CONCURRENCY_LIMIT
    /\ \A id \in SessionIds : Len(View(id).currentImages) <= CONCURRENCY_LIMIT

\* The pool is full and a task of the chunk waits in the queue.
C3_Witness ==
    /\ Len(state.currentImages) = CONCURRENCY_LIMIT
    /\ \E i \in Chunk(chunkStart) : tpc[i] = "queued"

\* C4: a task of a later chunk is not started, its chunk's background neither
\* awaited nor loaded, and it has no outcome, before every task of the
\* earlier chunks has its outcome in results; the outcomes of a chunk precede
\* those of the next one in results.
C4_ChunksInOrder ==
    /\ \A i, j \in 1..N :
          (/\ ChunkOf(i) < ChunkOf(j)
           /\ \/ tpc[j] # "queued"
              \/ j \in started
              \/ HasResult(j)
              \/ (dpc \in {"loadbg", "awaitAll"} /\ j \in Chunk(chunkStart)))
          => (tpc[i] = "done" /\ HasResult(i))
    /\ \A p, q \in 1..Len(doneOrder) :
          p < q => ChunkOf(doneOrder[p]) <= ChunkOf(doneOrder[q])

\* The second chunk runs, and the first chunk's outcomes are not in
\* submission order.
C4_Witness ==
    /\ N > CHUNK_SIZE
    /\ tpc[CHUNK_SIZE + 1] = "remote"
    /\ doneOrder[1] = 2 /\ doneOrder[2] = 1

\* C5: a step that records a task's own failure appends that one outcome and
\* leaves the dispatcher and every other task as they were; and in a
\* finished batch every task has exactly one outcome, its own, and every
\* task whose chunk was not failed as a whole was started.
C5_FailureStep ==
    \A i \in 1..MaxFiles :
        (/\ tpc[i] \in {"queued", "fit", "remote"}
         /\ tpc'[i] = "done"
         /\ Len(state'.results) = Len(state.results) + 1
         /\ ~state'.results[Len(state'.results)].success
         /\ state'.results[Len(state'.results)].error # BACKGROUND_ERROR)
        => /\ dpc' = dpc
           /\ chunkStart' = chunkStart
           /\ \A j \in 1..MaxFiles : j # i => tpc'[j] = tpc[j]
           /\ SubSeq(state'.results, 1, Len(state.results)) = state.results
           /\ state'.results[Len(state'.results)].file = files[i]
           /\ state'.isProcessing = state.isProcessing
           /\ state'.totalImages = state.totalImages
           /\ tempDir' = tempDir

C5_AllAnswered ==
    /\ dpc \in {"idle", "loadbg", "awaitAll", "done"}
    /\ dpc = "done" =>
          \A i \in 1..N :
              /\ Cardinality(ResultsOf(i)) = 1
              /\ ResultOf(i).file = files[i]
              /\ ResultOf(i).error # BACKGROUND_ERROR => i \in started

\* C5: a failed task is recorded as that task's failed outcome and changes
\* nothing else (C5_FailureStep, every step), and every task of the batch
\* still gets its own outcome (C5_AllAnswered, every state).
C5_TaskFailureIsolated == [][C5_FailureStep]_vars /\ []C5_AllAnswered

\* A finished batch in which the first task failed at the remote call, a
\* task of the same chunk and the task of the next chunk succeeded.
C5_Witness ==
    /\ dpc = "done"
    /\ N > CHUNK_SIZE
    /\ ResultOf(1).error = REMOTE_ERROR
    /\ ResultOf(2).success
    /\ ResultOf(CHUNK_SIZE + 1).success

\* C6: the tasks of a chunk whose background load failed all carry the same
\* failure, were never marked in flight nor sent to the remote service, and
\* the dispatcher has gone on past the chunk; a task that was never started
\* in a chunk the dispatcher has left has exactly that failure.
C6_BackgroundFailureFailsChunk ==
    /\ \A i \in 1..N :
          (HasResult(i) /\ ResultOf(i).error = BACKGROUND_ERROR) =>
              /\ i \notin started
              /\ i \notin sent
              /\ \A j \in Chunk(ChunkStartOf(i)) :
                    /\ HasResult(j)
                    /\ ResultOf(j) = Failure(files[j], BACKGROUND_ERROR)
              /\ chunkStart > ChunkStartOf(i)
              /\ dpc \in {"loadbg", "awaitAll", "done"}
    /\ \A i \in 1..N :
          (i \notin started /\ dpc # "idle" /\ chunkStart > ChunkStartOf(i)) =>
              /\ Cardinality(ResultsOf(i)) = 1
              /\ ResultOf(i) = Failure(files[i], BACKGROUND_ERROR)
    /\ Len(state.currentImages) > 0 =>
          \A i \in Chunk(chunkStart) : ~HasResult(i) \/ i \in started

\* The first chunk failed as a whole and the task of the second succeeded.
C6_Witness ==
    /\ N > CHUNK_SIZE
    /\ \A i \in 1..CHUNK_SIZE :
          HasResult(i) /\ ResultOf(i).error = BACKGROUND_ERROR
    /\ HasResult(CHUNK_SIZE + 1) /\ ResultOf(CHUNK_SIZE + 1).success
    /\ sent = {CHUNK_SIZE + 1}

\* C7 as stated: a started task has one outcome once it is terminal and none
\* before, and the name of a terminal task is not in the in-flight list.
C7_NameLeavesInFlight ==
    /\ \A i \in started :
          Cardinality(ResultsOf(i)) = (IF tpc[i] = "done" THEN 1 ELSE 0)
    /\ \A i \in 1..N :
          tpc[i] = "done" => files[i] \notin Range(state.currentImages)
    /\ dpc = "done" => state.currentImages = <<>>

\* C7 amended: a started task has one outcome once it is terminal and none
\* before; the in-flight list holds one entry per task still executing, so
\* a name is listed as often as tasks of that name are executing, and the
\* name of a terminal task is listed only while another task of the same
\* name executes; the list is empty when the batch is finished.
C7_MarkerPerRunningTask ==
    /\ \A i \in started :
          /\ Cardinality(ResultsOf(i)) = (IF tpc[i] = "done" THEN 1 ELSE 0)
          /\ tpc[i] = "done" => ResultOf(i).file = files[i]
    /\ Len(state.currentImages) = Cardinality(Active)
    /\ \A i \in 1..N :
          Occurrences(state.currentImages, files[i]) =
              Cardinality({j \in Active : files[j] = files[i]})
    /\ \A i \in 1..N :
          (tpc[i] = "done" /\ \A j \in Active : files[j] # files[i])
              => files[i] \notin Range(state.currentImages)
    /\ dpc = "done" => state.currentImages = <<>>

\* A task ended by a failure and one by a success, both started, while a
\* third is in flight.
C7_Witness ==
    /\ \E i, j \in started :
          /\ tpc[i] = "done" /\ ~ResultOf(i).success
          /\ tpc[j] = "done" /\ ResultOf(j).success
    /\ Cardinality(Active) = 1
    /\ Len(state.currentImages) = 1

\* C13: the step that accepts a submission leaves the session registered with
\* isProcessing = TRUE, totalImages = the number of files, processedImages = 0
\* and no results, the dispatcher waiting on its first await and no task with
\* a terminal outcome.
C13_SubmitStep ==
    (dpc = "idle" /\ dpc' # "idle") =>
        /\ BatchId \in activeSessions'
        /\ sessionStates'[BatchId] = "batch"
        /\ tempDir'[BatchId].exists
        /\ Len(files') >= 1
        /\ state' = [isProcessing |-> TRUE, totalImages |-> Len(files'),
                     processedImages |-> 0, currentImages |-> <<>>,
                     results |-> <<>>]
        /\ dpc' = "loadbg"
        /\ \A i \in 1..MaxFiles : tpc'[i] \in {"queued", "none"}
        /\ doneOrder' = <<>> /\ started' = {} /\ sent' = {}

C13_AsyncStart == [][C13_SubmitStep]_vars

C13_Witness ==
    /\ dpc = "loadbg" /\ chunkStart = 0
    /\ N = MaxFiles
    /\ View(BatchId).isProcessing
    /\ View(BatchId).totalImages = MaxFiles
    /\ View(BatchId).processedImages = 0
    /\ View(BatchId).results = <<>>

\* C15: without the API key no submission is accepted: no session is
\* registered, no directory made, no batch started and no remote call made.
C15_NoKeyNoSession ==
    ~apiKey =>
        /\ dpc = "idle"
        /\ activeSessions = {}
        /\ \A id \in SessionIds : ~tempDir[id].exists
        /\ sent = {}

\* What the code does in C15's case: the submission is accepted, the session
\* exists and a task is recorded as failed for the missing key.
C15_AcceptedWithoutKey ==
    /\ ~apiKey
    /\ BatchId \in activeSessions
    /\ tempDir[BatchId].exists
    /\ sessionStates[BatchId] = "batch"
    /\ Len(state.results) >= 1
    /\ state.results[1] = Failure(files[doneOrder[1]], NO_KEY_ERROR)
    /\ sent = {}

\* C20: while the dispatcher is in its loop the batch is marked processing
\* and every uploaded source, the background included, is on disk; once the
\* loop has ended the batch is not processing, every task is terminal and no
\* source is left; the sources go in that one step, all together, so each is
\* deleted once, whatever its task's outcome.
C20_Inv ==
    /\ dpc \in {"loadbg", "awaitAll"} =>
          /\ uploads = (1..N) \cup {BgFile}
          /\ state.isProcessing
    /\ dpc = "done" =>
          /\ uploads = {}
          /\ ~state.isProcessing
          /\ \A i \in 1..N : tpc[i] = "done"
          /\ Len(state.results) = N

C20_Step ==
    (dpc # "idle" /\ (uploads' # uploads
                       \/ state'.isProcessing # state.isProcessing)) =>
        /\ dpc \in {"loadbg", "awaitAll"} /\ dpc' = "done"
        /\ chunkStart + CHUNK_SIZE >= N
        /\ uploads = (1..N) \cup {BgFile} /\ uploads' = {}
        /\ state.isProcessing /\ ~state'.isProcessing
        /\ \A i \in 1..N : tpc'[i] = "done"

Malformed(input) ==
    \/ ~input.hasFiles \/ Len(input.fs) = 0
    \/ ~input.hasBg
    \/ ~input.hasDims

\* The session of id is as it was created: registered, with its directory
\* and the state the dispatcher writes to.
Present(id) ==
    /\ id \in activeSessions
    /\ tempDir[id].exists
    /\ sessionStates[id] = "batch"

\* Nothing of the session of id is left: no entry, no directory, no state
\* the dispatcher writes to.
Reclaimed(id) ==
    /\ id \notin activeSessions
    /\ ~tempDir[id].exists
    /\ sessionStates[id] # "batch"

\* C14: a POST /api/process whose body is malformed is answered 400 and
\* changes nothing: no session entry, no session state, no directory, no batch.
C14_Step ==
    (reply'.op = "process" /\ Malformed(reply'.req)) =>
        /\ reply'.code = 400
        /\ reply'.id = NoId
        /\ UNCHANGED <<activeSessions, sessionStates, tempDir, state, files,
                       dpc, tpc>>

C14_MalformedRejected == [][C14_Step]_vars

\* What the code does with a body that lacks backgroundDimensions only: 200,
\* a session, and a batch in which the background load fails for every file.
C14_AcceptedWithoutDimensions ==
    /\ ~bgDims
    /\ dpc = "done"
    /\ Present(BatchId)
    /\ Len(state.results) = N
    /\ \A k \in 1..N : state.results[k] = Failure(files[k], BACKGROUND_ERROR)

\* C16: GET /api/status answers 200 with the empty view (not processing, 0
\* of 0, nothing in flight, no results) when the request has no id, when the
\* id was never given to a batch, and when the id's session has been cleaned up.
C16_DefaultView ==
    (/\ reply.op = "status"
     /\ \/ reply.id = NoId
        \/ reply.id = UnknownId
        \/ reply.id = BatchId /\ dpc = "idle"
        \/ reply.id = BatchId /\ reclaimedBy[BatchId] # "none") =>
        /\ reply.code = 200
        /\ reply.view = [isProcessing |-> FALSE, totalImages |-> 0,
                         processedImages |-> 0, currentImages |-> <<>>,
                         results |-> <<>>]

\* The status of a session that was cleaned up while its batch was running.
C16_Witness ==
    /\ reply.op = "status" /\ reply.id = BatchId
    /\ reclaimedBy[BatchId] = "clear"
    /\ state.isProcessing
    /\ reply.view.totalImages = 0

\* C17 as stated, at the instants when no sweep is waiting to run: a session
\* older than SESSION_TIMEOUT has no directory and its status is the empty view.
C17_GoneOnceOlderThanTimeout ==
    (/\ dpc # "idle"
     /\ now - createdAt[BatchId] > SESSION_TIMEOUT
     /\ now < nextSweep) =>
        /\ ~tempDir[BatchId].exists
        /\ View(BatchId) = DefaultState

\* C17 amended: once a sweep has run at a time when the session was older
\* than SESSION_TIMEOUT, the session has no entry and no directory, and its
\* status, then and at every later query, is the empty view and not the state
\* of the batch.
C17_GoneOnceSwept ==
    (/\ dpc # "idle"
     /\ (nextSweep - SWEEP_INTERVAL) - createdAt[BatchId] > SESSION_TIMEOUT) =>
        /\ BatchId \notin activeSessions
        /\ ~tempDir[BatchId].exists
        /\ View(BatchId) = DefaultState
        /\ (reply.op = "status" /\ reply.id = BatchId) =>
              reply.view = DefaultState

\* The sweep took a session whose batch was still running, and the status
\* asked afterwards is the empty view.
C17_Witness ==
    /\ reclaimedBy[BatchId] = "sweep"
    /\ now - createdAt[BatchId] > SESSION_TIMEOUT
    /\ state.isProcessing
    /\ reply.op = "status" /\ reply.id = BatchId
    /\ reply.view = DefaultState

\* C18: a GET /api/download for an id whose directory is missing or lists no
\* file is answered 404 and changes nothing: no archive, no timer, and the
\* session entries, states and directories as before.
C18_Step ==
    (/\ reply'.op = "download"
     /\ ~tempDir[reply'.id].exists \/ tempDir[reply'.id].names = {}) =>
        /\ reply'.code = 404
        /\ UNCHANGED <<timers, zips, activeSessions, sessionStates, tempDir,
                       state, createdAt, dvars>>

C18_NotFoundChangesNothing == [][C18_Step]_vars

\* A download of a finished batch that produced no output.
C18_Witness ==
    /\ reply.op = "download" /\ reply.id = BatchId /\ reply.code = 404
    /\ Present(BatchId)
    /\ tempDir[BatchId].names = {}
    /\ dpc = "done"

\* C19 as stated: from a bundle's completion until its grace delay has
\* passed, the session is there, with its state and its outputs.
C19_PresentUntilGraceOver ==
    \A t \in timers :
        now < t.due => Present(t.id) /\ tempDir[t.id].names # {}

\* C19 amended, in three parts.  While a bundle's cleanup is pending, it is
\* due no later than one grace delay from now, and the session is there with
\* its state and outputs unless a cleanup has run on it already (a clear, the
\* sweep or the timer of an earlier bundle).
C19_Inv ==
    \A t \in timers :
        /\ t.due <= now + GRACE_DELAY
        /\ reclaimedBy[t.id] = "none" =>
              /\ Present(t.id)
              /\ tempDir[t.id].names # {}
              /\ View(t.id) = state

\* The step that completes a bundle schedules the cleanup one grace delay
\* ahead and removes nothing; a scheduled cleanup runs no earlier than it is
\* due, and leaves nothing of the session.
C19_Step ==
    /\ \A t \in timers' \ timers :
          /\ t.due = now + GRACE_DELAY
          /\ UNCHANGED <<tempDir, activeSessions, sessionStates, state>>
    /\ \A t \in timers \ timers' :
          /\ now >= t.due
          /\ Reclaimed(t.id)'
    /\ \A id \in SessionIds :
          (reclaimedBy[id] = "none" /\ reclaimedBy'[id] = "timer") =>
              \E t \in timers : t.id = id /\ now >= t.due

\* A scheduled cleanup runs in the end: nothing of the session is left.
C19_Live ==
    \A id \in SessionIds : (\E t \in timers : t.id = id) ~> Reclaimed(id)

C19_ReclaimAfterGrace == []C19_Inv /\ [][C19_Step]_vars /\ C19_Live

\* The timer of a download has cleaned the session up, one grace delay or
\* more after the batch was created.
C19_Witness ==
    /\ reclaimedBy[BatchId] = "timer"
    /\ Reclaimed(BatchId)
    /\ timers = {}
    /\ now >= createdAt[BatchId] + GRACE_DELAY
    /\ dpc = "done"

\* ------------------------------------------------------------------ retry

\* Mutant: every error that carries a client or server status is retried.
IsRetryableErrorAnyStatus(error) ==
    IF ~error.hasResponse THEN TRUE
    ELSE error.status >= 400

\* isRetryableError(error)
IsRetryableError(error) ==
    IF ~error.hasResponse THEN TRUE
    ELSE error.status = 429 \/ error.status >= 500

\* Math.pow(2, n)
RECURSIVE Pow2(_)
Pow2(n) == IF n = 0 THEN 1 ELSE 2 * Pow2(n - 1)

\* Mutant: a fixed delay, no backoff.
DelayFixed(a) == 2 * RETRY_BASE_DELAY

\* Mutant: the exponent counts the retries from 0.
DelayFromZero(a) == Pow2(a - 1) * RETRY_BASE_DELAY

\* const delay = Math.pow(2, attempt) * RETRY_BASE_DELAY
Delay(a) == Pow2(a) * RETRY_BASE_DELAY

\* Mutant: the attempt limit is tested after the increment.
GivesUpLate(error, a, max) ==
    ~IsRetryableError(error) \/ a > max

\* The catch block's test: the error is thrown to the caller.
GivesUp(error, a, max) ==
    ~IsRetryableError(error) \/ a = max

\* await fn() resolves: withRetry returns the value.
FnResolves ==
    /\ rpc = "calling"
    /\ calls' = Append(calls, Response)
    /\ rpc' = "returned"
    /\ UNCHANGED <<maxRetries, attempt, sleeps, thrown>>

\* await fn() rejects: the error is thrown, or the delay is computed and
\* sleep(delay) awaited.
FnRejects(error) ==
    /\ rpc = "calling"
    /\ calls' = Append(calls, error)
    /\ IF GivesUp(error, attempt, maxRetries)
       THEN /\ rpc' = "thrown"
            /\ thrown' = error
            /\ sleeps' = sleeps
       ELSE /\ rpc' = "sleeping"
            /\ thrown' = thrown
            /\ sleeps' = Append(sleeps, Delay(attempt))
    /\ UNCHANGED <<maxRetries, attempt>>

\* sleep(delay) resolves: attempt++ and fn() is called again.
SleepDone ==
    /\ rpc = "sleeping"
    /\ attempt' = attempt + 1
    /\ rpc' = "calling"
    /\ UNCHANGED <<maxRetries, calls, sleeps, thrown>>

\* withRetry(fn, context, maxRetries) has entered its loop and called fn().
RetryInit ==
    /\ DispatcherInit
    /\ apiKey = TRUE
    /\ rpc = "calling"
    /\ maxRetries \in 1..MaxRetriesArg
    /\ attempt = 1
    /\ calls = <<>>
    /\ sleeps = <<>>
    /\ thrown = NoError
    /\ other = NoCall
    /\ SessionIdle
    /\ FitIdle

RetryNext ==
    \/ FnResolves /\ UNCHANGED notrvars
    \/ \E e \in Errors : FnRejects(e) /\ UNCHANGED notrvars
    \/ SleepDone /\ UNCHANGED notrvars

SpecRetry == RetryInit /\ [][RetryNext]_vars

\* ----------------------------------------------------------- retry claims

\* An error that has a response whose status is neither 429 nor >= 500.
Fatal(e) ==
    e.kind = "error" /\ e.hasResponse /\ e.status # 429 /\ e.status < 500

\* An error with no response, with status 429, or with a status >= 500.
Transient(e) ==
    e.kind = "error" /\ (~e.hasResponse \/ e.status = 429 \/ e.status >= 500)

\* C8: a fatal error ends the call where it happens: it is the last
\* invocation, it is the error thrown, and no sleep follows it, so a fatal
\* first failure means one attempt and no sleep; every invocation that was
\* followed by a sleep or by another invocation failed with a transient error.
C8_FatalNotRetried ==
    /\ \A k \in 1..Len(calls) :
          Fatal(calls[k]) =>
             /\ k = Len(calls)
             /\ rpc = "thrown"
             /\ thrown = calls[k]
             /\ Len(sleeps) = k - 1
    /\ (Len(calls) >= 1 /\ Fatal(calls[1])) => (Len(calls) = 1 /\ sleeps = <<>>)
    /\ \A k \in 1..Len(sleeps) : Transient(calls[k])
    /\ \A k \in 1..(Len(calls) - 1) : Transient(calls[k])

C8_Witness ==
    /\ maxRetries = MAX_RETRIES
    /\ rpc = "thrown"
    /\ Len(calls) = 1
    /\ calls[1].hasResponse /\ calls[1].status = 400
    /\ sleeps = <<>>

\* C9: k transient failures (k < maxRetries) followed by a success: the call
\* returns, after k + 1 invocations and k sleeps, one before each
\* re-attempt, each longer than the one before; and it does not give up on a
\* transient failure while attempts remain.
C9_SuccessAfterRetries ==
    /\ (Len(calls) >= 1 /\ calls[Len(calls)] = Response) =>
          /\ rpc = "returned"
          /\ thrown = NoError
          /\ \A k \in 1..(Len(calls) - 1) : Transient(calls[k])
          /\ Len(sleeps) = Len(calls) - 1
    /\ rpc = "calling" => Len(sleeps) = Len(calls) /\ attempt = Len(calls) + 1
    /\ \A k \in 1..(Len(sleeps) - 1) : sleeps[k] < sleeps[k + 1]
    /\ (rpc = "thrown" /\ Transient(thrown)) => Len(calls) = maxRetries
    /\ Len(calls) <= maxRetries

C9_Witness ==
    /\ maxRetries = MAX_RETRIES
    /\ rpc = "returned"
    /\ Len(calls) = 3
    /\ calls[1].status = 429 /\ calls[2].status = 429
    /\ Len(sleeps) = 2 /\ sleeps[1] < sleeps[2]

\* C10 as stated: the sleep before the 2nd attempt is 4 times the base delay
\* and the sleep before the 3rd attempt is 8 times the base delay.
C10_FourAndEightTimesBase ==
    /\ Len(sleeps) >= 1 => sleeps[1] = 4 * RETRY_BASE_DELAY
    /\ Len(sleeps) >= 2 => sleeps[2] = 8 * RETRY_BASE_DELAY

\* C10 amended: the sleep after failed attempt a (counted from 1) is
\* baseDelay * 2^a: 2 times the base delay (4000 ms) before the 2nd attempt
\* and 4 times the base delay (8000 ms) before the 3rd.
C10_DelayDoubles ==
    /\ \A a \in 1..Len(sleeps) : sleeps[a] = RETRY_BASE_DELAY * 2 ^ a
    /\ Len(sleeps) >= 1 => sleeps[1] = 2 * RETRY_BASE_DELAY /\ sleeps[1] = 4000
    /\ Len(sleeps) >= 2 => sleeps[2] = 4 * RETRY_BASE_DELAY /\ sleeps[2] = 8000

C10_Witness ==
    /\ rpc = "calling"
    /\ attempt = 3
    /\ sleeps = <<4000, 8000>>

\* C11: with maxRetries = MAX_RETRIES = 3 and a base of 2000 ms, a call whose
\* every attempt fails with a retryable error is retried 3 times before it
\* gives up, after waits of 4 s, 8 s and 16 s.
C11_ThreeRetriesUpTo16s ==
    (maxRetries = MAX_RETRIES /\ rpc = "thrown" /\ Transient(thrown)) =>
        /\ Len(calls) = 1 + 3
        /\ sleeps = <<4000, 8000, 16000>>

\* What the code does in C11's case: 3 invocations, 2 of them retries, after
\* waits of 4 s and 8 s; the third failure is thrown and 16 s is never slept.
C11_Exhausted ==
    /\ maxRetries = MAX_RETRIES
    /\ rpc = "thrown"
    /\ Len(calls) = 3
    /\ \A k \in 1..3 : calls[k].hasResponse /\ calls[k].status = 503
    /\ thrown = calls[3]
    /\ sleeps = <<4000, 8000>>

\* --------------------------------------------- two calls at the same time

\* The errors the two concurrent calls meet: none with a response, a client
\* error and a server error.
PairErrors ==
    {e \in Errors : ~e.hasResponse \/ e.status = 400 \/ e.status = 503}

\* The second call's await fn() resolves.
OtherResolves ==
    /\ other.rpc = "calling"
    /\ other' = [other EXCEPT !.calls = Append(@, Response),
                              !.rpc = "returned"]
    /\ UNCHANGED rvars

\* The second call's await fn() rejects: its own attempt is what is tested.
OtherRejects(error) ==
    /\ other.rpc = "calling"
    /\ other' =
         IF GivesUp(error, other.attempt, maxRetries)
         THEN [other EXCEPT !.calls = Append(@, error),
                            !.rpc = "thrown",
                            !.thrown = error]
         ELSE [other EXCEPT !.calls = Append(@, error),
                            !.rpc = "sleeping",
                            !.sleeps = Append(@, Delay(other.attempt))]
    /\ UNCHANGED rvars

\* The second call's sleep(delay) resolves.
OtherSleepDone ==
    /\ other.rpc = "sleeping"
    /\ other' = [other EXCEPT !.attempt = @ + 1, !.rpc = "calling"]
    /\ UNCHANGED rvars

\* Two tasks of a chunk have each entered withRetry and called fn().
PairInit ==
    /\ DispatcherInit
    /\ apiKey = TRUE
    /\ rpc = "calling"
    /\ maxRetries \in 1..MaxRetriesArg
    /\ attempt = 1
    /\ calls = <<>>
    /\ sleeps = <<>>
    /\ thrown = NoError
    /\ other = [NoCall EXCEPT !.rpc = "calling", !.attempt = 1]
    /\ SessionIdle
    /\ FitIdle

PairNext ==
    \/ FnResolves /\ UNCHANGED notrvars
    \/ \E e \in PairErrors : FnRejects(e) /\ UNCHANGED notrvars
    \/ SleepDone /\ UNCHANGED notrvars
    \/ OtherResolves /\ UNCHANGED <<dvars, svars, fvars, tvars>>
    \/ \E e \in PairErrors : OtherRejects(e) /\ UNCHANGED <<dvars, svars, fvars, tvars>>
    \/ OtherSleepDone /\ UNCHANGED <<dvars, svars, fvars, tvars>>

SpecRetryPair == PairInit /\ [][PairNext]_vars

FitExamples ==
    {[width |-> 4000, height |-> 3000, maxWidth |-> 0, maxHeight |-> 0,
      maxPixels |-> 4500000],
     [width |-> 800, height |-> 600, maxWidth |-> 0, maxHeight |-> 0,
      maxPixels |-> 4500000],
     [width |-> 22, height |-> 22, maxWidth |-> 15, maxHeight |-> 15,
      maxPixels |-> 4500000]}

FitInputs ==
    [width : 1..MaxDim, height : 1..MaxDim, maxWidth : 0..MaxDim,
     maxHeight : 0..MaxDim, maxPixels : 0..MaxBudget] \cup FitExamples

RECURSIVE GCD(_, _)
GCD(a, b) == IF b = 0 THEN a ELSE GCD(b, a % b)

\* A scale is kept exact: the quotient num / den in lowest terms, or, when
\* sq, its square root.
Quotient(n, d) ==
    [sq |-> FALSE, num |-> n \div GCD(n, d), den |-> d \div GCD(n, d)]
Sqrt(n, d) ==
    [sq |-> TRUE, num |-> n \div GCD(n, d), den |-> d \div GCD(n, d)]
One == [sq |-> FALSE, num |-> 1, den |-> 1]

\* s <= t: two quotients are compared as they are, a square root and
\* another scale on their squares.
SquareNum(s) == IF s.sq THEN s.num ELSE s.num * s.num
SquareDen(s) == IF s.sq THEN s.den ELSE s.den * s.den
LeScale(s, t) ==
    IF ~s.sq /\ ~t.sq
    THEN s.num * t.den <= t.num * s.den
    ELSE SquareNum(s) * SquareDen(t) <= SquareNum(t) * SquareDen(s)

\* Mutant: the larger scale is used.
MathMax(s, t) == IF LeScale(s, t) THEN t ELSE s

\* Math.min(s, t)
MathMin(s, t) == IF LeScale(s, t) THEN s ELSE t

\* The largest k with k * k <= n.
Isqrt(n) == CHOOSE k \in 0..n : k * k <= n /\ (k + 1) * (k + 1) > n

\* The products x * (num / den) whose exact value is a whole number and
\* which double arithmetic evaluates just below it, among the inputs of
\* FitInputs: 22 * (15 / 22) is 14.999999999999998.
RoundsBelow == {<<22, 15, 22>>}

\* Mutant: the product is rounded up.
CeilTimes(x, s) ==
    IF s.sq
    THEN Isqrt((x * x * s.num) \div s.den) + 1
    ELSE ((x * s.num) \div s.den) + 1

\* Math.floor(x * scale), for a scale below 1
FloorTimes(x, s) ==
    IF s.sq
    THEN Isqrt((x * x * s.num) \div s.den)
    ELSE ((x * s.num) \div s.den)
            - (IF <<x, s.num, s.den>> \in RoundsBelow THEN 1 ELSE 0)

\* dimensionScale: 1 unless maxWidth and maxHeight are both given (non-zero)
\* and the image is wider or higher than they allow.
DimensionScale(in) ==
    IF /\ in.maxWidth # 0 /\ in.maxHeight # 0
       /\ in.width > in.maxWidth \/ in.height > in.maxHeight
    THEN MathMin(Quotient(in.maxWidth, in.width),
                 Quotient(in.maxHeight, in.height))
    ELSE One

\* pixelScale: 1 unless the image has more pixels than maxPixels.
PixelScale(in) ==
    IF in.width * in.height > in.maxPixels
    THEN Sqrt(in.maxPixels, in.width * in.height)
    ELSE One

\* const scale = Math.min(dimensionScale, pixelScale)
Scale(in) == MathMin(DimensionScale(in), PixelScale(in))

\* Mutant: the image is resized also when the scale is 1.
TargetAlwaysResized(in) ==
    [resized |-> TRUE,
     width |-> IF LeScale(One, Scale(in)) THEN in.width
               ELSE FloorTimes(in.width, Scale(in)),
     height |-> IF LeScale(One, Scale(in)) THEN in.height
                ELSE FloorTimes(in.height, Scale(in))]

\* What downscaleImageToLimit returns: the file as it is when scale >= 1,
\* else the image resized to newWidth by newHeight.
Target(in) ==
    IF LeScale(One, Scale(in))
    THEN [resized |-> FALSE, width |-> in.width, height |-> in.height]
    ELSE [resized |-> TRUE,
          width |-> FloorTimes(in.width, Scale(in)),
          height |-> FloorTimes(in.height, Scale(in))]

\* downscaleImageToLimit(imagePath, maxWidth, maxHeight, maxPixels) returns.
DownscaleImageToLimit ==
    /\ fitOut = NoFit
    /\ fitOut' = Target(fitIn)
    /\ UNCHANGED <<fitIn, bg>>
    /\ UNCHANGED notfvars

\* downscaleImageToLimit has been called.
FitInit ==
    /\ DispatcherInit
    /\ apiKey = TRUE
    /\ RetryIdle
    /\ SessionIdle
    /\ fitIn \in FitInputs
    /\ fitOut = NoFit
    /\ bg = NoBackground

FitNext == DownscaleImageToLimit

SpecFit == FitInit /\ [][FitNext]_vars

\* ---------------------------------------------------------- fitter claims

\* maxWidth and maxHeight were both given.
HasBox(in) == in.maxWidth # 0 /\ in.maxHeight # 0

\* C21: the size returned is no wider and no higher than the image, has no
\* more pixels than maxPixels and, when a box is given, fits in the box.
C21_WithinLimits ==
    fitOut # NoFit =>
        /\ fitOut.width <= fitIn.width
        /\ fitOut.height <= fitIn.height
        /\ fitOut.width * fitOut.height <= fitIn.maxPixels
        /\ HasBox(fitIn) =>
              /\ fitOut.width <= fitIn.maxWidth
              /\ fitOut.height <= fitIn.maxHeight

\* An image over the budget and over the box, with each of them binding one
\* dimension or the other, has been resized.
C21_Witness ==
    /\ fitOut.resized
    /\ HasBox(fitIn)
    /\ fitIn.width > fitIn.maxWidth
    /\ fitIn.width * fitIn.height > fitIn.maxPixels
    /\ fitOut.width >= 1 /\ fitOut.height >= 1

\* k <= x * min(scaleBox, scalePixels, 1), in whole numbers: scaleBox is
\* min(maxW / width, maxH / height) when a box is given, scalePixels is
\* sqrt(maxPixels / (width * height)) when the image is over the budget.
AtMostScaled(k, x, in) ==
    LET cur == in.width * in.height
        g == GCD(in.maxPixels, cur)
    IN  /\ k <= x
        /\ HasBox(in) =>
              /\ k * in.width <= x * in.maxWidth
              /\ k * in.height <= x * in.maxHeight
        /\ cur > in.maxPixels =>
              k * k * (cur \div g) <= x * x * (in.maxPixels \div g)

\* floor(x * scale) of the reference computation.
RefFloor(x, in) ==
    CHOOSE k \in 0..x : AtMostScaled(k, x, in) /\ ~AtMostScaled(k + 1, x, in)

\* C22: the size returned is floor(width * scale) by floor(height * scale)
\* with scale = min(scaleBox, scalePixels, 1); 4000 x 3000 with a budget of
\* 4,500,000 and no box gives 2449 x 1837.
C22_EqualsReference ==
    fitOut # NoFit =>
        /\ fitOut.width = RefFloor(fitIn.width, fitIn)
        /\ fitOut.height = RefFloor(fitIn.height, fitIn)
        /\ (fitIn.width = 4000 /\ fitIn.height = 3000) =>
              fitOut.width = 2449 /\ fitOut.height = 1837

\* What the code does with an image 22 x 22 and a box 15 x 15: the scale is
\* 15 / 22, the product 22 * (15 / 22) falls below 15 and the floor is 14.
C22_OnePixelShort ==
    /\ fitIn.width = 22 /\ fitIn.height = 22
    /\ fitIn.maxWidth = 15 /\ fitIn.maxHeight = 15
    /\ RefFloor(22, fitIn) = 15
    /\ fitOut = [resized |-> TRUE, width |-> 14, height |-> 14]

\* C23: an image within the budget and, when a box is given, within the box
\* is returned as it is; an image is resized only when it is over the budget
\* or over the box, and then to a size smaller in both dimensions.
C23_UnchangedWithinLimits ==
    fitOut # NoFit =>
        LET within ==
              /\ fitIn.width * fitIn.height <= fitIn.maxPixels
              /\ HasBox(fitIn) =>
                    /\ fitIn.width <= fitIn.maxWidth
                    /\ fitIn.height <= fitIn.maxHeight
        IN  /\ within =>
                 fitOut = [resized |-> FALSE, width |-> fitIn.width,
                           height |-> fitIn.height]
            /\ fitOut.resized =>
                 /\ ~within
                 /\ fitOut.width < fitIn.width
                 /\ fitOut.height < fitIn.height

\* 800 x 600 under a budget of 4,500,000 pixels.
C23_Witness ==
    /\ fitIn.width = 800 /\ fitIn.height = 600
    /\ fitIn.maxPixels = 4500000
    /\ fitOut = [resized |-> FALSE, width |-> 800, height |-> 600]

\* ------------------------------------------------- batch state invariants

\* C24 as stated, a task being found in the in-flight list and in results by
\* its name: of a batch that has started, every task is in exactly one of
\* not yet started, named in currentImages, named in results.
C24_NameInOneCondition ==
    dpc # "idle" =>
        \A i \in 1..N :
            LET notStarted == tpc[i] = "queued"
                inFlight == files[i] \in Range(state.currentImages)
                inResults ==
                    \E k \in 1..Len(state.results) :
                        state.results[k].file = files[i]
            IN  /\ notStarted \/ inFlight \/ inResults
                /\ ~(notStarted /\ inFlight)
                /\ ~(notStarted /\ inResults)
                /\ ~(inFlight /\ inResults)

\* C24 amended: every task is in exactly one of not yet started, executing
\* and terminal; currentImages lists a name once per executing task of that
\* name, and results holds one outcome per terminal task, under its name.
C24_OneConditionPerTask ==
    dpc # "idle" =>
        /\ \A i \in 1..N :
              /\ tpc[i] \in {"queued", "fit", "remote", "done"}
              /\ i \in Active => files[i] \in Range(state.currentImages)
              /\ Occurrences(state.currentImages, files[i]) =
                     Cardinality({j \in Active : files[j] = files[i]})
              /\ Cardinality(ResultsOf(i)) = (IF tpc[i] = "done" THEN 1 ELSE 0)
              /\ tpc[i] = "done" => ResultOf(i).file = files[i]
        /\ Len(state.results) = Len(doneOrder)
        /\ Len(state.currentImages) = Cardinality(Active)

\* Two tasks of one name, the first terminal and the second executing, and
\* a third task not yet started.
C24_Witness ==
    /\ N >= 3
    /\ files[1] = files[2]
    /\ tpc[1] = "done" /\ tpc[2] \in {"fit", "remote"} /\ tpc[3] = "queued"
    /\ state.currentImages = <<files[2]>>
    /\ Len(state.results) = 1 /\ state.results[1].file = files[1]

\* C25: in a state a status request can be served in (no continuation of the
\* batch is pending), the view's isProcessing is TRUE exactly when results
\* holds fewer than totalImages outcomes.
C25_ProcessingIffUnfinished ==
    ~MicrotaskPending =>
        (View(BatchId).isProcessing
            <=> Len(View(BatchId).results) < View(BatchId).totalImages)

\* The batch of MaxFiles files has finished with the session still there.
C25_Witness ==
    /\ ~MicrotaskPending
    /\ Live
    /\ N = MaxFiles
    /\ ~View(BatchId).isProcessing
    /\ Len(View(BatchId).results) = MaxFiles
    /\ View(BatchId).totalImages = MaxFiles

\* s is a prefix of t.
IsPrefix(s, t) == Len(s) <= Len(t) /\ SubSeq(t, 1, Len(s)) = s

\* C26: in a step that leaves the session in being, the results of before
\* are a prefix of the results of after and processedImages does not
\* decrease.
C26_Step ==
    (sessionStates[BatchId] = "batch" /\ sessionStates'[BatchId] = "batch") =>
        /\ IsPrefix(View(BatchId).results, View(BatchId)'.results)
        /\ View(BatchId)'.processedImages >= View(BatchId).processedImages

C26_AppendOnly == [][C26_Step]_vars

\* A second chunk is being worked on after a first chunk that failed as a
\* whole: results have been appended by the dispatcher and by a task.
C26_Witness ==
    /\ Live
    /\ chunkStart = CHUNK_SIZE
    /\ Len(state.results) = CHUNK_SIZE
    /\ state.results[1].error = BACKGROUND_ERROR
    /\ \E i \in 1..N : tpc[i] = "remote"

\* The dispatcher's and the tasks' continuations: each runs once it can, as
\* every awaited call returns or throws.
BatchSteps ==
    \/ LoadBackgroundOk
    \/ LoadBackgroundFail
    \/ \E i \in 1..MaxFiles : StartTask(i)
    \/ \E i \in 1..MaxFiles : FitOk(i) \/ FitFail(i)
    \/ \E i \in 1..MaxFiles, w \in BOOLEAN : RemoteOk(i, w)
    \/ \E i \in 1..MaxFiles : RemoteFail(i)
    \/ ChunkComplete

SpecFair == Spec /\ WF_vars(BatchSteps /\ UNCHANGED notdvars)

\* C27: a batch that has started reaches the state where the loop has ended,
\* isProcessing is FALSE and every task has its outcome in results.
C27_BatchTerminates ==
    (dpc # "idle") ~>
        /\ dpc = "done"
        /\ ~state.isProcessing
        /\ \A i \in 1..N : HasResult(i)
        /\ Len(state.results) = N

\* The batch has finished although its session was cleaned up while a task
\* was waiting for the remote service.
C27_Witness ==
    /\ dpc = "done"
    /\ N = MaxFiles
    /\ ~state.isProcessing
    /\ Len(state.results) = N
    /\ sessionStates[BatchId] # "batch"
    /\ \E k \in 1..N : state.results[k].error = WRITE_ERROR

\* ------------------------------------------------------------ two batches

\* POST /api/process for another session while the first batch runs: the
\* call of processImagesParallel makes a limiter of its own, pLimit(
\* CONCURRENCY_LIMIT), and hands it the n tasks of its chunk.
SecondSubmit(n) ==
    /\ second = NoSecond
    /\ second' = [queued |-> n, fit |-> 0, remote |-> 0]
    /\ UNCHANGED nottvars

\* The second batch's limiter runs its next queued task when fewer than
\* CONCURRENCY_LIMIT of its own tasks are active.
SecondStartTask ==
    /\ second.queued > 0
    /\ second.fit + second.remote < CONCURRENCY_LIMIT
    /\ second' = [second EXCEPT !.queued = @ - 1, !.fit = @ + 1]
    /\ UNCHANGED nottvars

\* A task of the second batch has fitted its image and calls the service.
SecondFitOk ==
    /\ second.fit > 0
    /\ second' = [second EXCEPT !.fit = @ - 1, !.remote = @ + 1]
    /\ UNCHANGED nottvars

\* A remote call of the second batch returns or fails for good.
SecondRemoteEnds ==
    /\ second.remote > 0
    /\ second' = [second EXCEPT !.remote = @ - 1]
    /\ UNCHANGED nottvars

TwoInit == Init /\ apiKey

TwoNext ==
    \/ \E fs \in FileLists : Submit(fs, TRUE) /\ UNCHANGED notdvars
    \/ BatchSteps /\ UNCHANGED notdvars
    \/ \E n \in 1..CHUNK_SIZE : SecondSubmit(n)
    \/ SecondStartTask
    \/ SecondFitOk
    \/ SecondRemoteEnds

SpecTwoBatches == TwoInit /\ [][TwoNext]_vars

\* Remote calls in flight, of the first batch and of both.
RemoteCalls == Cardinality({i \in 1..N : tpc[i] = "remote"})

\* C28: whatever batches run, no more than CONCURRENCY_LIMIT remote calls
\* are in flight at once.
C28_RemoteCallsBounded ==
    RemoteCalls + second.remote <= CONCURRENCY_LIMIT

\* What the code allows: each of two batches has CONCURRENCY_LIMIT remote
\* calls in flight, twice the limit in all.
C28_TwiceTheLimit ==
    /\ RemoteCalls = CONCURRENCY_LIMIT
    /\ second.remote = CONCURRENCY_LIMIT

\* --------------------------------------------------- expiry while running

\* The batch's session has been cleaned up (by POST /api/clear or by the
\* sweep): it has been submitted and is no longer in activeSessions.
Expired == dpc # "idle" /\ BatchId \notin activeSessions

C29_Gone ==
    Expired =>
        /\ sessionStates[BatchId] # "batch"
        /\ View(BatchId) = DefaultState
        /\ tempDir[BatchId] = NoDir

C29_TasksGoOn ==
    (Expired /\ state.isProcessing) ~>
        /\ dpc = "done"
        /\ ~state.isProcessing
        /\ Len(state.results) = N

\* C29: once a session is cleaned up while its batch runs, every status view
\* of it is the default one and its directory is gone, with no file in it,
\* in every later state, and the batch still runs to its end.
C29_ExpiredStaysGone == []C29_Gone /\ C29_TasksGoOn

\* After the cleanup a task has ended on the missing directory, a status has
\* been asked and another task is still waiting for the remote service.
C29_Witness ==
    /\ Expired
    /\ sessionStates[BatchId] = "default"
    /\ state.isProcessing
    /\ \E k \in 1..Len(state.results) : state.results[k].error = WRITE_ERROR
    /\ \E i \in 1..N : tpc[i] = "remote"
    /\ \E i \in 1..N : tpc[i] = "queued"

\* ------------------------------------------------------- status read-only

\* C30: a status request, for whatever id, leaves the stored session-state
\* records and every field of them as they were.
C30_Step ==
    reply'.op = "status" =>
        /\ sessionStates' = sessionStates
        /\ state' = state

C30_StatusReadOnly == [][C30_Step]_vars

\* What the code does: a status request for an id that was never submitted
\* has stored a default record, which is in no activeSessions entry, and
\* the sweeps that have run since have left it there past the timeout.
C30_RecordLeftBehind ==
    /\ sessionStates[UnknownId] = "default"
    /\ UnknownId \notin activeSessions
    /\ now > SESSION_TIMEOUT
    /\ nextSweep > now

\* ------------------------------------------------------------ output files

\* The positions of results that hold a success.
Successes == {k \in 1..Len(state.results) : state.results[k].success}

\* C32: while the session is there, its directory holds as many files as
\* results holds successes, whatever the names of the tasks.
C32_OneFilePerSuccess ==
    Live => Cardinality(tempDir[BatchId].names) = Cardinality(Successes)

\* What the code does with two tasks of one original name: both succeed and
\* both write composited-<name>, so the directory holds one file for two
\* successes.
C32_OneFileForTwoSuccesses ==
    /\ Live
    /\ N >= 2 /\ files[1] = files[2]
    /\ tpc[1] = "done" /\ ResultOf(1).success
    /\ tpc[2] = "done" /\ ResultOf(2).success
    /\ ResultOf(1).savedTo = ResultOf(2).savedTo
    /\ Cardinality(Successes) = 2
    /\ tempDir[BatchId].names = {"composited-" \o files[1]}

\* ------------------------------------------------ download while running

\* Complete submissions of two or three files.
RunningInputs ==
    {[hasFiles |-> TRUE, fs |-> SubSeq(DistinctNames, 1, n), hasBg |-> TRUE,
      hasDims |-> TRUE] : n \in 2..3}

DownloadInit == Init /\ apiKey

\* One session's batch, its status and downloads, the timers and the sweep.
DownloadNext ==
    \/ \E input \in RunningInputs : PostProcess(input)
    \/ StatusRequest(BatchId)
    \/ Download(BatchId)
    \/ ArchiveEnd(BatchId)
    \/ ArchiveError(BatchId)
    \/ \E t \in timers : TimerFire(t)
    \/ Sweep
    \/ Tick
    \/ BatchSteps /\ Background

SpecDownload == DownloadInit /\ [][DownloadNext]_vars

\* C31: the step in which a download's timer cleans the session up is never
\* taken while the batch's isProcessing is TRUE.
C31_Step ==
    (reclaimedBy[BatchId] = "none" /\ reclaimedBy'[BatchId] = "timer") =>
        ~state.isProcessing

C31_NoReclaimWhileProcessing == [][C31_Step]_vars

\* What the code does: the first output was downloaded while another task
\* was waiting for the remote service, and the download's timer has removed
\* the session's state and directory with the batch still processing.
C31_ReclaimedWhileProcessing ==
    /\ reclaimedBy[BatchId] = "timer"
    /\ state.isProcessing
    /\ \E i \in 1..N : tpc[i] = "remote"
    /\ sessionStates[BatchId] = "none"
    /\ tempDir[BatchId] = NoDir
    /\ BatchId \notin activeSessions

\* ------------------------------------------------------ background buffer

\* The calls of loadBackgroundBuffer: the background's size, which the
\* declared bgDimensions and the file agree on, and safeMaxPixels, which is
\* 4,500,000 in the code and is scaled down with the sizes of the grid.
BackgroundCalls ==
    {[NoBackground EXCEPT !.pc = "called", !.width = w, !.height = h,
                          !.safeMaxPixels = p] :
        w \in 1..MaxDim, h \in 1..MaxDim, p \in 1..MaxBudget}
    \cup {[NoBackground EXCEPT !.pc = "called", !.width = 4000,
                               !.height = 3000, !.safeMaxPixels = 4500000],
          [NoBackground EXCEPT !.pc = "called", !.width = 800,
                               !.height = 600, !.safeMaxPixels = 4500000]}

\* finalOutputWidth or finalOutputHeight: the declared dimension x, scaled by
\* sqrt(safeMaxPixels / bgPixels) and floored when the background is over
\* the budget.
FinalOutput(x, b) ==
    IF b.width * b.height > b.safeMaxPixels
    THEN FloorTimes(x, Sqrt(b.safeMaxPixels, b.width * b.height))
    ELSE x

\* loadBackgroundBuffer up to its await: the final output box is computed
\* and downscaleImageToLimit is called on the background with that box.
LoadBackgroundBuffer ==
    /\ bg.pc = "called"
    /\ bg' = [bg EXCEPT !.pc = "fitting",
                        !.finalWidth = FinalOutput(bg.width, bg),
                        !.finalHeight = FinalOutput(bg.height, bg)]
    /\ fitIn' = [width |-> bg.width, height |-> bg.height,
                 maxWidth |-> FinalOutput(bg.width, bg),
                 maxHeight |-> FinalOutput(bg.height, bg),
                 maxPixels |-> bg.safeMaxPixels]
    /\ UNCHANGED fitOut
    /\ UNCHANGED notfvars

\* The fitter returns the buffer to loadBackgroundBuffer.
BackgroundFitted ==
    /\ bg.pc = "fitting"
    /\ DownscaleImageToLimit

\* loadBackgroundBuffer returns {buffer, finalWidth, finalHeight,
\* safeMaxPixels}.
LoadBackgroundBufferReturns ==
    /\ bg.pc = "fitting"
    /\ fitOut # NoFit
    /\ bg' = [bg EXCEPT !.pc = "returned"]
    /\ UNCHANGED <<fitIn, fitOut>>
    /\ UNCHANGED notfvars

BackgroundInit ==
    /\ DispatcherInit
    /\ apiKey = TRUE
    /\ RetryIdle
    /\ SessionIdle
    /\ fitIn = NoFitIn
    /\ fitOut = NoFit
    /\ bg \in BackgroundCalls

BackgroundNext ==
    \/ LoadBackgroundBuffer
    \/ BackgroundFitted
    \/ LoadBackgroundBufferReturns

SpecBackground == BackgroundInit /\ [][BackgroundNext]_vars

\* C33: the finalWidth and finalHeight loadBackgroundBuffer returns are the
\* width and height of the buffer the fitter made of the background.
C33_ReportedSizeIsBufferSize ==
    bg.pc = "returned" =>
        /\ fitOut.width = bg.finalWidth
        /\ fitOut.height = bg.finalHeight

\* What the code does with a background 4000 x 3000: the box is 2449 x 1837,
\* the fitter's scale is the smaller quotient 2449 / 4000, and the buffer is
\* 2449 x 1836.
C33_BufferOneRowShort ==
    /\ bg.pc = "returned"
    /\ bg.width = 4000 /\ bg.height = 3000
    /\ bg.finalWidth = 2449 /\ bg.finalHeight = 1837
    /\ fitOut = [resized |-> TRUE, width |-> 2449, height |-> 1836]

====
